---------------------------- MODULE Spec2Model ----------------------------
(***************************************************************************)
(* Mini Market API (src/app.py, src/auth.py, src/models.py): the users,    *)
(* products and cart_items tables and the request handlers that read and   *)
(* write them.                                                             *)
(*                                                                         *)
(* The server runs as worker processes that share the database.  A worker  *)
(* handles one request at a time (the handlers are coroutines that never   *)
(* await), each on its own SQLAlchemy session (src/database.py).  A        *)
(* handler that writes is modelled as two steps, the granularity at which  *)
(* the database lets the requests of different workers interleave:         *)
(*   Begin  : the SELECTs the handler issues (its lookup), and             *)
(*   Commit : the flush of the pending INSERT / UPDATE / DELETE together   *)
(*            with db.commit() and the handler's trailing read of the cart.*)
(* A handler that only reads is one step.  Amounts are integers in cents   *)
(* (Numeric(10, 2)).                                                       *)
(*                                                                         *)
(* The protected routes resolve get_current_user (src/auth.py) from the    *)
(* Authorization header before anything else.  The clients hold the tokens *)
(* that login returns; login writes nothing on the server, so the clients  *)
(* of the registered users are taken to hold the token a login returns at  *)
(* the current time, whether or not that login is one of the requests      *)
(* followed here.                                                          *)
(*                                                                         *)
(* Spec    : the server processes handling register, login and cart        *)
(*           requests concurrently, at one instant.                        *)
(* SeqSpec : one server process answering one request after the other,     *)
(*           logout included, while the clock advances.                    *)
(***************************************************************************)
EXTENDS Integers, Sequences, FiniteSets, TLC

VARIABLES
    users,        \* rows of table users:      [id, username, password_hash]
    products,     \* rows of table products:   id -> [price, is_available]
    cart_items,   \* rows of table cart_items: [id, user_id, product_id, quantity]
    next_user_id, \* serial of users.id
    next_cart_id, \* serial of cart_items.id
    pc,           \* per worker: where its current request stands
    req,          \* per worker: the request it handles
    last,         \* the request answered most recently, with its response
    prev,         \* the request answered before that one, with its response
    nreq,         \* number of requests received, catalog changes and clock steps so far
    now,          \* datetime.utcnow(), in days
    tokens        \* the access tokens that clients hold

vars == <<users, products, cart_items, next_user_id, next_cart_id, pc, req, last, prev, nreq,
          now, tokens>>

-----------------------------------------------------------------------------
(* Bounds of the model *)

MaxReq == 4
\* The clock stops at this day, one day past the expiry of a token issued at
\* day 0.
MaxNow == 8

Workers == {"w1", "w2"}
FirstWorker == "w1"

-----------------------------------------------------------------------------
(* Program constants *)

QuantityMin == 1
QuantityMax == 999
UpdateQuantityMin == 0

\* Usernames are sequences of characters.
bob     == <<"b", "o", "b">>
b_b     == <<"b", "_", "b">>
BobSp   == <<"B", "o", "b", " ">>

\* Usernames a request may carry: two that differ in case only (one of them
\* with trailing whitespace) and one with an ILIKE wildcard.
RawUsernames   == {bob, BobSp, b_b}
\* Usernames a login may carry: a name as registered, and one with
\* surrounding whitespace
LoginUsernames == {bob, BobSp}
RegPasswords   == {"secret1"}
LoginPasswords == {"secret1", "wrong99"}

\* Product ids: 1 and 2 are rows of the catalog, 999 is not.  add_item may
\* name any of them; set_item_quantity and remove_item look the cart line up
\* and never the product, so for them 999 is one more product without a line.
ProductIds     == {1, 2}
ReqProductIds  == {1, 2, 999}
\* The product whose price or availability changes
ChangedProducts == {2}
\* Quantities a request may carry, at the upper edge of the validated range
\* of add_item and at the lower edge of that of set_item_quantity.
AddQuantities    == {999, 1000}
UpdateQuantities == {0, 1}
\* Prices (cents) the catalog may hold: the seeded 2.49 and 1.39.
Prices == {249, 139}

UsernameMinLen == 3
UsernameMaxLen == 50
PasswordMinLen == 6

ACCESS_TOKEN_EXPIRE_DAYS == 7
\* Days the clock may advance by in one step: up to the expiry of a token
\* issued just before, and past it.
TickDays == {7, 8}

-----------------------------------------------------------------------------
(* Strings *)

\* str.lower() / the case folding of ILIKE, on the characters in use
Lower(c) ==
    CASE c = "B" -> "b"
      [] c = "O" -> "o"
      [] OTHER   -> c

RECURSIVE LStrip(_)
LStrip(s) == IF s # <<>> /\ Head(s) = " " THEN LStrip(Tail(s)) ELSE s

RECURSIVE RStrip(_)
RStrip(s) ==
    IF s # <<>> /\ s[Len(s)] = " " THEN RStrip(SubSeq(s, 1, Len(s) - 1)) ELSE s

\* req.username.strip()
Strip(s) == RStrip(LStrip(s))

\* PostgreSQL  str ILIKE pat : % matches any run of characters, _ any one
\* character, a backslash takes the next pattern character literally, and
\* every other character matches itself ignoring case.
RECURSIVE ILike(_, _)
ILike(str, pat) ==
    IF pat = <<>> THEN str = <<>>
    ELSE IF Head(pat) = "%"
         THEN ILike(str, Tail(pat)) \/ (str # <<>> /\ ILike(Tail(str), pat))
    ELSE IF Head(pat) = "_"
         THEN str # <<>> /\ ILike(Tail(str), Tail(pat))
    ELSE IF Head(pat) = "\\" /\ Len(pat) >= 2
         THEN /\ str # <<>>
              /\ Lower(Head(str)) = Lower(pat[2])
              /\ ILike(Tail(str), Tail(Tail(pat)))
    ELSE /\ str # <<>>
         /\ Lower(Head(str)) = Lower(Head(pat))
         /\ ILike(Tail(str), Tail(pat))

\* Equality of two usernames ignoring case
SameIgnoringCase(a, b) ==
    /\ Len(a) = Len(b)
    /\ \A i \in 1..Len(a) : Lower(a[i]) = Lower(b[i])

-----------------------------------------------------------------------------
(* Credentials (src/auth.py) *)

\* bcrypt: an opaque value from which only verification can tell the password
hash_password(password) == <<"bcrypt", password>>

verify_password(plain_password, hashed_password) ==
    hashed_password = hash_password(plain_password)

\* jwt.encode({"sub": username, "exp": utcnow() + 7 days}, SECRET_KEY): the
\* claims the token carries and whether its signature is the server's.  Two
\* tokens with the same claims are the same string.
Token(sub, exp) == [sub |-> sub, exp |-> exp, signature |-> "server"]

create_access_token(username) == Token(username, now + ACCESS_TOKEN_EXPIRE_DAYS)

\* The tokens that the registered users get by logging in at time at.  login
\* writes nothing, so a client that knows its password may hold such a token
\* at any moment after at.
LoggedIn(rows, at) == {Token(u.username, at + ACCESS_TOKEN_EXPIRE_DAYS) : u \in rows}

\* jwt.decode(token, SECRET_KEY): the payload, or JWTError for a signature
\* that is not the server's and for exp < now (ExpiredSignatureError)
NoExpiryCheck(token, at) ==
    IF token.signature # "server" THEN "JWTError" ELSE token.sub

NoSignatureCheck(token, at) ==
    IF token.exp < at THEN "JWTError" ELSE token.sub

jwt_decode(token, at) ==
    IF token.signature # "server" THEN "JWTError"
    ELSE IF token.exp < at THEN "JWTError"
    ELSE token.sub

-----------------------------------------------------------------------------
(* Table constraints (src/models.py) *)

\* users.username : unique=True  (an exact, case-sensitive comparison)
UniqueUsername(rows, username) ==
    \A r \in rows : r.username # username

\* UniqueConstraint("user_id", "product_id", name="uq_user_product")
NoUniqueUserProduct(rows, user_id, product_id) == TRUE

UniqueUserProduct(rows, user_id, product_id) ==
    \A r \in rows : ~(r.user_id = user_id /\ r.product_id = product_id)

-----------------------------------------------------------------------------
(* Requests and responses *)

\* No access_token in the response
NoToken == [sub |-> <<>>, exp |-> 0, signature |-> "none"]

\* The Authorization header, as authorization.split() sees it: no header, or
\* the sequence of its parts
NoHeader == <<>>
Bearer(token) == <<"Bearer", token>>

\* A header of another scheme, with credentials that are not a JWT
NotAToken == [sub |-> <<>>, exp |-> 0, signature |-> "not a JWT"]
BasicHeader == <<"Basic", NotAToken>>
\* A token for bob that the server did not sign
ForgedToken == [sub |-> bob, exp |-> 1000, signature |-> "forged"]
\* A token that carries the server's signature (SECRET_KEY defaults to a
\* published string) for a name that is not registered
eve == <<"e", "v", "e">>
StrangerToken == [sub |-> eve, exp |-> 1000, signature |-> "server"]

\* Headers a request may carry
Authorizations ==
    {NoHeader, BasicHeader, Bearer(ForgedToken), Bearer(StrangerToken)}
        \cup {Bearer(t) : t \in tokens}

\* A request: its parameters, the user get_current_user resolved, and saw,
\* the cart row its lookup returned (a set of at most one row).
Request(op, user_id, product_id, quantity, username, password) ==
    [op |-> op, user_id |-> user_id, product_id |-> product_id,
     quantity |-> quantity, username |-> username, password |-> password,
     authorization |-> NoHeader, saw |-> {}]

NoRequest == Request("none", 0, 0, 0, <<>>, "")

Response(status, detail, items, total, token) ==
    [status |-> status, detail |-> detail, items |-> items, total |-> total,
     access_token |-> token]

NoResponse == Response(0, "", {}, 0, NoToken)

\* raise HTTPException(status_code, detail)
HTTPException(status, detail) == Response(status, detail, {}, 0, NoToken)

\* FastAPI's answer to a body or query parameter that fails its Field/Query bounds
ValidationError == HTTPException(422, "validation error")

\* An exception the handler does not catch (IntegrityError, StaleDataError)
InternalError == HTTPException(500, "Internal Server Error")

\* Query.first(): one of the matching rows, or None
First(rows) == IF rows = {} THEN {{}} ELSE {{r} : r \in rows}

-----------------------------------------------------------------------------
(* Depends(get_current_user)  (src/auth.py).  FastAPI resolves it before it *)
(* validates the body and the query of the route.                           *)

Unauthenticated(detail) == HTTPException(401, detail)

\* len(parts) != 2 or parts[0].lower() != "bearer"
BadHeaderFormat(authorization) ==
    Len(authorization) # 2 \/ authorization[1] \notin {"Bearer", "bearer", "BEARER"}

\* The exception get_current_user raises (NoResponse: none) and the user it
\* returns (a set of at most one row)
get_current_user(authorization, rows, at) ==
    IF authorization = NoHeader
    THEN [error |-> Unauthenticated("Not authenticated"), user |-> {}]
    ELSE IF BadHeaderFormat(authorization)
    THEN [error |-> Unauthenticated("Invalid authentication header format"), user |-> {}]
    ELSE IF jwt_decode(authorization[2], at) = "JWTError"
    THEN [error |-> Unauthenticated("Invalid or expired token"), user |-> {}]
    ELSE LET username == jwt_decode(authorization[2], at)
             found == {u \in rows : u.username = username}
         IN  IF found = {}
             THEN [error |-> Unauthenticated("User not found"), user |-> {}]
             ELSE [error |-> NoResponse, user |-> found]

\* The request of a protected route as its handler gets it: the header, the
\* user resolved from it (0: none) and the parameters
Call(op, authorization, current_user, product_id, quantity) ==
    [Request(op, IF current_user = {} THEN 0 ELSE (CHOOSE u \in current_user : TRUE).id,
             product_id, quantity, <<>>, "")
       EXCEPT !.authorization = authorization]

-----------------------------------------------------------------------------
(* Cart summary (src/app.py, _get_cart_items) *)

\* db.query(CartItem).filter(CartItem.user_id == user.id).all()
CartRowsOf(rows, user_id) == {r \in rows : r.user_id = user_id}

\* db.query(CartItem).filter(CartItem.user_id == current_user.id,
\*                           CartItem.product_id == product_id)
OwnLine(rows, user_id, product_id) ==
    {r \in rows : r.user_id = user_id /\ r.product_id = product_id}

\* round(x, 2) of a float x given in hundredths of a cent, in cents.  A
\* product or sum of amounts in whole cents is off its exact value by far
\* less than one such unit.
Round2(x) == (x + 50) \div 100

LineTotalOfUnit(price, quantity) == Round2(price * 100)

\* line_total = round(unit_price * cart_item.quantity, 2), in cents
LineTotal(price, quantity) == Round2(price * 100 * quantity)

RECURSIVE SumLineTotals(_)
SumLineTotals(lines) ==
    IF lines = {} THEN 0
    ELSE LET l == CHOOSE x \in lines : TRUE
         IN  l.line_total + SumLineTotals(lines \ {l})

\* One entry per cart row whose product exists.  The row id stands for the
\* entry's position in the list.
CartLines(rows, catalog, user_id) ==
    {[row |-> r.id, product_id |-> r.product_id,
      price |-> catalog[r.product_id].price, quantity |-> r.quantity,
      line_total |-> LineTotal(catalog[r.product_id].price, r.quantity)] :
        r \in {x \in CartRowsOf(rows, user_id) : x.product_id \in DOMAIN catalog}}

\* total = round(total, 2) over the line totals
CartTotal(lines) == Round2(SumLineTotals(lines) * 100)

\* CartResponse(items=items, total=total)
CartResponse(rows, catalog, user_id) ==
    LET lines == CartLines(rows, catalog, user_id)
    IN  Response(200, "ok", lines, CartTotal(lines), NoToken)

-----------------------------------------------------------------------------
Init ==
    /\ users = {}
    /\ products = [p \in ProductIds |->
                     [price |-> IF p = 1 THEN 249 ELSE 139, is_available |-> TRUE]]
    /\ cart_items = {}
    /\ next_user_id = 1
    /\ next_cart_id = 1
    /\ pc = [w \in Workers |-> "idle"]
    /\ req = [w \in Workers |-> NoRequest]
    /\ last = [req |-> NoRequest, resp |-> NoResponse]
    /\ prev = [req |-> NoRequest, resp |-> NoResponse]
    /\ nreq = 0
    /\ now = 0
    /\ tokens = {}

\* A request arrives and goes to the first idle worker
Accept(w) ==
    /\ pc[w] = "idle"
    /\ w = FirstWorker \/ pc[FirstWorker] # "idle"
    /\ nreq < MaxReq
    /\ nreq' = nreq + 1

\* The handler returns (or raises): the request is answered
Finish(w, r, answer) ==
    /\ pc' = [pc EXCEPT ![w] = "idle"]
    /\ req' = [req EXCEPT ![w] = NoRequest]
    /\ last' = [req |-> r, resp |-> answer]
    /\ prev' = last

\* The handler has issued its SELECTs and holds a pending write
Pending(w, r, at) ==
    /\ pc' = [pc EXCEPT ![w] = at]
    /\ req' = [req EXCEPT ![w] = r]
    /\ UNCHANGED <<last, prev>>

-----------------------------------------------------------------------------
(* POST /api/auth/register *)

\* db.query(User).filter(User.username.ilike(username)).first()
ExistingUser(rows, username) == {r \in rows : ILike(r.username, username)}

RegisterBegin(w) ==
    /\ Accept(w)
    /\ \E raw \in RawUsernames, password \in RegPasswords :
         LET r == Request("register", 0, 0, 0, raw, password)
             username == Strip(raw)
         IN  IF \/ Len(raw) < UsernameMinLen
                \/ Len(raw) > UsernameMaxLen
                \/ Len(password) < PasswordMinLen
             THEN Finish(w, r, ValidationError)
             ELSE IF ExistingUser(users, username) # {}
             THEN Finish(w, r, HTTPException(400, "Username already exists"))
             ELSE Pending(w, r, "register_commit")
    /\ UNCHANGED <<users, products, cart_items, next_user_id, next_cart_id, now, tokens>>
\* db.add(user); db.commit(); db.refresh(user)
RegisterCommit(w) ==
    /\ pc[w] = "register_commit"
    /\ LET username == Strip(req[w].username)
       IN  IF UniqueUsername(users, username)
           THEN /\ users' = users \cup
                      {[id |-> next_user_id, username |-> username,
                        password_hash |-> hash_password(req[w].password)]}
                /\ next_user_id' = next_user_id + 1
                /\ Finish(w, req[w], Response(200, "ok", {}, 0, NoToken))
           ELSE /\ UNCHANGED <<users, next_user_id>>
                /\ Finish(w, req[w], InternalError)
    \* the client of the new user may log in from now on
    /\ tokens' = tokens \cup LoggedIn(users' \ users, now)
    /\ UNCHANGED <<products, cart_items, next_cart_id, nreq, now>>
-----------------------------------------------------------------------------
(* POST /api/auth/login *)

UserNotFoundLeak == HTTPException(401, "User not found")

\* raised when no user has the username
LoginNoUser == HTTPException(401, "Invalid username or password")

\* raised when verify_password fails
LoginBadPassword == HTTPException(401, "Invalid username or password")

Login(w) ==
    /\ Accept(w)
    /\ \E raw \in LoginUsernames, password \in LoginPasswords :
         LET r == Request("login", 0, 0, 0, raw, password)
             username == Strip(raw)
             found == {u \in users : u.username = username}
         IN  IF found = {}
             THEN Finish(w, r, LoginNoUser) /\ UNCHANGED tokens
             ELSE \E user \in found :
                    IF ~verify_password(password, user.password_hash)
                    THEN Finish(w, r, LoginBadPassword) /\ UNCHANGED tokens
                    ELSE /\ Finish(w, r, Response(200, "ok", {}, 0,
                                                  create_access_token(username)))
                         /\ tokens' = tokens \cup {create_access_token(username)}
    /\ UNCHANGED <<users, products, cart_items, next_user_id, next_cart_id, now>>
-----------------------------------------------------------------------------
(* POST /api/auth/logout *)

\* The handler returns {"status": "ok"}: it writes nothing and the tokens
\* handed out stay as they are.
Logout(w) ==
    /\ Accept(w)
    /\ \E authorization \in Authorizations :
         LET auth == get_current_user(authorization, users, now)
             r == Call("logout", authorization, auth.user, 0, 0)
         IN  IF auth.error # NoResponse
             THEN Finish(w, r, auth.error)
             ELSE Finish(w, r, Response(200, "ok", {}, 0, NoToken))
    /\ UNCHANGED <<users, products, cart_items, next_user_id, next_cart_id, now, tokens>>

-----------------------------------------------------------------------------
(* GET /api/cart.  The cart handlers run for the user that get_current_user *)
(* resolved from the bearer token, once it has resolved one.                 *)

GetCart(w) ==
    /\ Accept(w)
    /\ \E authorization \in Authorizations :
         LET auth == get_current_user(authorization, users, now)
             r == Call("get_cart", authorization, auth.user, 0, 0)
         IN  IF auth.error # NoResponse
             THEN Finish(w, r, auth.error)
             ELSE Finish(w, r, CartResponse(cart_items, products, r.user_id))
    /\ UNCHANGED <<users, products, cart_items, next_user_id, next_cart_id, now, tokens>>
-----------------------------------------------------------------------------
(* POST /api/cart/items *)

\* CartItemIn.quantity : Field(ge=1, le=999)
ValidAddQuantity(q) == q >= QuantityMin /\ q <= QuantityMax

NoAvailabilityCheck(catalog, product_id) ==
    IF product_id \notin DOMAIN catalog
    THEN HTTPException(404, "Product not found")
    ELSE NoResponse

\* The product checks of add_cart_item: the exception raised, or NoResponse
ProductCheck(catalog, product_id) ==
    IF product_id \notin DOMAIN catalog
    THEN HTTPException(404, "Product not found")
    ELSE IF ~catalog[product_id].is_available
    THEN HTTPException(400, "Product '<name>' is currently not available")
    ELSE NoResponse

AddBegin(w) ==
    /\ Accept(w)
    /\ \E authorization \in Authorizations :
         LET auth == get_current_user(authorization, users, now) IN
         IF auth.error # NoResponse
         THEN Finish(w, Call("add_item", authorization, {}, 0, 0), auth.error)
         ELSE \E product_id \in ReqProductIds, q \in AddQuantities :
           LET r == Call("add_item", authorization, auth.user, product_id, q)
           IN  IF ~ValidAddQuantity(q)
               THEN Finish(w, r, ValidationError)
               ELSE IF ProductCheck(products, product_id) # NoResponse
               THEN Finish(w, r, ProductCheck(products, product_id))
               ELSE \E saw \in First(OwnLine(cart_items, r.user_id, product_id)) :
                      Pending(w, [r EXCEPT !.saw = saw], "add_commit")
    /\ UNCHANGED <<users, products, cart_items, next_user_id, next_cart_id, now, tokens>>
ClampQuantity(old, q) == IF old + q > QuantityMax THEN QuantityMax ELSE old + q

\* cart_item.quantity += item.quantity
IncreaseQuantity(old, q) == old + q

\* UPDATE cart_items SET quantity = :quantity WHERE id = :id
UpdateRow(rows, id, quantity) ==
    {IF r.id = id THEN [r EXCEPT !.quantity = quantity] ELSE r : r \in rows}

\* DELETE FROM cart_items WHERE id = :id
DeleteRow(rows, id) == {r \in rows : r.id # id}

\* db.commit() of the pending UPDATE or INSERT, then the trailing read
AddCommit(w) ==
    /\ pc[w] = "add_commit"
    /\ LET r == req[w] IN
       IF r.saw # {}
       THEN \* the row loaded by the lookup is updated to the value computed
            \* from what was loaded
            /\ \E line \in r.saw :
                 IF \E x \in cart_items : x.id = line.id
                 THEN /\ cart_items' = UpdateRow(cart_items, line.id,
                                           IncreaseQuantity(line.quantity, r.quantity))
                      /\ Finish(w, r, CartResponse(cart_items', products, r.user_id))
                 ELSE \* StaleDataError: the UPDATE matched no row
                      /\ UNCHANGED cart_items
                      /\ Finish(w, r, InternalError)
            /\ UNCHANGED next_cart_id
       ELSE IF UniqueUserProduct(cart_items, r.user_id, r.product_id)
       THEN /\ cart_items' = cart_items \cup
                  {[id |-> next_cart_id, user_id |-> r.user_id,
                    product_id |-> r.product_id, quantity |-> r.quantity]}
            /\ next_cart_id' = next_cart_id + 1
            /\ Finish(w, r, CartResponse(cart_items', products, r.user_id))
       ELSE \* IntegrityError: uq_user_product
            /\ UNCHANGED <<cart_items, next_cart_id>>
            /\ Finish(w, r, InternalError)
    /\ UNCHANGED <<users, products, next_user_id, nreq, now, tokens>>

-----------------------------------------------------------------------------
(* PATCH /api/cart/items/{product_id}?quantity= *)

\* quantity: int = Query(..., ge=0, le=999)
ValidUpdateQuantity(q) == q >= UpdateQuantityMin /\ q <= QuantityMax

UpdateBegin(w) ==
    /\ Accept(w)
    /\ \E authorization \in Authorizations :
         LET auth == get_current_user(authorization, users, now) IN
         IF auth.error # NoResponse
         THEN Finish(w, Call("set_item_quantity", authorization, {}, 0, 0), auth.error)
         ELSE \E product_id \in ProductIds, q \in UpdateQuantities :
           LET r == Call("set_item_quantity", authorization, auth.user, product_id, q)
           IN  IF ~ValidUpdateQuantity(q)
               THEN Finish(w, r, ValidationError)
               ELSE \E saw \in First(OwnLine(cart_items, r.user_id, product_id)) :
                      IF saw = {}
                      THEN Finish(w, r, HTTPException(404, "Item not found in cart"))
                      ELSE Pending(w, [r EXCEPT !.saw = saw], "update_commit")
    /\ UNCHANGED <<users, products, cart_items, next_user_id, next_cart_id, now, tokens>>
SetWithoutDelete(rows, id, quantity) == UpdateRow(rows, id, quantity)

SetByAdding(rows, id, quantity) ==
    IF quantity <= 0 THEN DeleteRow(rows, id)
    ELSE {IF r.id = id THEN [r EXCEPT !.quantity = r.quantity + quantity] ELSE r : r \in rows}

\* if quantity <= 0: db.delete(cart_item)  else: cart_item.quantity = quantity
SetOrDelete(rows, id, quantity) ==
    IF quantity <= 0 THEN DeleteRow(rows, id) ELSE UpdateRow(rows, id, quantity)

UpdateCommit(w) ==
    /\ pc[w] = "update_commit"
    /\ LET r == req[w] IN
       \E line \in r.saw :
         IF r.quantity > 0 /\ ~(\E x \in cart_items : x.id = line.id)
         THEN \* StaleDataError: the UPDATE matched no row
              /\ UNCHANGED cart_items
              /\ Finish(w, r, InternalError)
         ELSE \* a DELETE that matches no row only warns
              /\ cart_items' = SetOrDelete(cart_items, line.id, r.quantity)
              /\ Finish(w, r, CartResponse(cart_items', products, r.user_id))
    /\ UNCHANGED <<users, products, next_user_id, next_cart_id, nreq, now, tokens>>

-----------------------------------------------------------------------------
(* DELETE /api/cart/items/{product_id} *)

AnyUsersLine(rows, user_id, product_id) == {r \in rows : r.product_id = product_id}

\* the lookup of remove_cart_item
RemoveLookup(rows, user_id, product_id) == OwnLine(rows, user_id, product_id)

RemoveBegin(w) ==
    /\ Accept(w)
    /\ \E authorization \in Authorizations :
         LET auth == get_current_user(authorization, users, now) IN
         IF auth.error # NoResponse
         THEN Finish(w, Call("remove_item", authorization, {}, 0, 0), auth.error)
         ELSE \E product_id \in ProductIds :
           LET r == Call("remove_item", authorization, auth.user, product_id, 0)
           IN  \E saw \in First(RemoveLookup(cart_items, r.user_id, product_id)) :
                 IF saw = {}
                 THEN Finish(w, r, HTTPException(404, "Item not found in cart"))
                 ELSE Pending(w, [r EXCEPT !.saw = saw], "remove_commit")
    /\ UNCHANGED <<users, products, cart_items, next_user_id, next_cart_id, now, tokens>>
ClearCart(rows, line) == {r \in rows : r.user_id # line.user_id}

RemoveOneUnit(rows, line) ==
    {IF r.id = line.id THEN [r EXCEPT !.quantity = r.quantity - 1] ELSE r :
        r \in {x \in rows : x.id # line.id \/ x.quantity > 1}}

\* db.delete(cart_item)
RemoveLine(rows, line) == DeleteRow(rows, line.id)

RemoveCommit(w) ==
    /\ pc[w] = "remove_commit"
    /\ LET r == req[w] IN
       \E line \in r.saw :
         /\ cart_items' = RemoveLine(cart_items, line)
         /\ Finish(w, r, CartResponse(cart_items', products, r.user_id))
    /\ UNCHANGED <<users, products, next_user_id, next_cart_id, nreq, now, tokens>>

-----------------------------------------------------------------------------
(* The catalog is written outside the API (the seed, an administrator on   *)
(* the database): the price or the availability of a product changes.      *)

CatalogChange ==
    /\ nreq < MaxReq
    /\ nreq' = nreq + 1
    /\ \E p \in ChangedProducts, price \in Prices, available \in BOOLEAN :
         /\ [price |-> price, is_available |-> available] # products[p]
         /\ price = products[p].price \/ available = products[p].is_available
         /\ products' = [products EXCEPT ![p] =
                            [price |-> price, is_available |-> available]]
    /\ UNCHANGED <<users, cart_items, next_user_id, next_cart_id, pc, req, last, prev,
                   now, tokens>>

-----------------------------------------------------------------------------
(* Time passes. *)

Tick ==
    /\ nreq < MaxReq
    /\ nreq' = nreq + 1
    /\ \E days \in TickDays :
         /\ now + days <= MaxNow
         /\ now' = now + days
    /\ UNCHANGED <<users, products, cart_items, next_user_id, next_cart_id, pc, req,
                   last, prev, tokens>>

-----------------------------------------------------------------------------
Next ==
    \/ \E w \in Workers : RegisterBegin(w)
    \/ \E w \in Workers : RegisterCommit(w)
    \/ \E w \in Workers : Login(w)
    \/ \E w \in Workers : GetCart(w)
    \/ \E w \in Workers : AddBegin(w)
    \/ \E w \in Workers : AddCommit(w)
    \/ \E w \in Workers : UpdateBegin(w)
    \/ \E w \in Workers : UpdateCommit(w)
    \/ \E w \in Workers : RemoveBegin(w)
    \/ \E w \in Workers : RemoveCommit(w)
    \/ CatalogChange

\* Server processes handling the register, login and cart requests that
\* reach them at one instant
Spec == Init /\ [][Next]_vars

\* One server process, which answers each request before it takes the next,
\* over time and on the catalog as seeded
SeqNext ==
    \/ RegisterBegin(FirstWorker)
    \/ RegisterCommit(FirstWorker)
    \/ Login(FirstWorker)
    \/ Logout(FirstWorker)
    \/ GetCart(FirstWorker)
    \/ AddBegin(FirstWorker)
    \/ AddCommit(FirstWorker)
    \/ UpdateBegin(FirstWorker)
    \/ UpdateCommit(FirstWorker)
    \/ RemoveBegin(FirstWorker)
    \/ RemoveCommit(FirstWorker)
    \/ Tick

SeqSpec == Init /\ [][SeqNext]_vars

-----------------------------------------------------------------------------
(* Vocabulary of the properties *)

CartOps == {"get_cart", "add_item", "set_item_quantity", "remove_item"}

\* The request answered most recently was of kind op
Done(op) == last.req.op = op

\* This step is a request of kind op arriving and being answered at once
\* (last' is the request and its response)
Answers(op) ==
    /\ nreq' = nreq + 1
    /\ pc' = pc
    /\ products' = products
    /\ now' = now
    /\ last'.req.op = op

\* This step is worker w committing the request it began (last' is the
\* request and its response)
Commits(w, at) == pc[w] = at /\ pc'[w] = "idle"

\* This step is a request of kind op arriving at worker w, answered at once or not
Receives(w, op) ==
    /\ pc[w] = "idle"
    /\ nreq' = nreq + 1
    /\ products' = products
    /\ now' = now
    /\ \A v \in Workers \ {w} : pc'[v] = pc[v]
    /\ IF pc'[w] = "idle" THEN last'.req.op = op ELSE req'[w].op = op

\* The request carried a token that get_current_user resolved to a user
ByUser(r) == r.user_id # 0

SameLine(r1, r2) == r1.user_id = r2.user_id /\ r1.product_id = r2.product_id

\* Quantity of the line a lookup returned (0: no line)
SawQuantity(saw) == IF saw = {} THEN 0 ELSE (CHOOSE l \in saw : TRUE).quantity

\* Stored lines of the (user, product) pair of request r
LinesOf(r) == {x \in cart_items : x.user_id = r.user_id /\ x.product_id = r.product_id}

\* The add_item call of history entry h passed its validation and product
\* checks: it looked the line up and committed (200) or failed at commit (500)
AddCommitted(h) == h.req.op = "add_item" /\ h.resp.status \in {200, 500}

-----------------------------------------------------------------------------
\* C1 (as claimed): two add_item calls for the same user and product that
\* run concurrently (both lookups return the same line, then both commit)
\* are both reflected: once both have finished, the line's quantity is the
\* quantity before the calls (0 if there was none) plus q1 + q2.
C1_ConcurrentAddsBothReflected ==
    ( /\ AddCommitted(prev) /\ AddCommitted(last)
      /\ SameLine(prev.req, last.req)
      /\ prev.req.saw = last.req.saw )
    => /\ Cardinality(LinesOf(last.req)) = 1
       /\ \A l \in LinesOf(last.req) :
            l.quantity = SawQuantity(last.req.saw) + prev.req.quantity + last.req.quantity

\* C2: there is at most one cart line per (user, product) pair, in every
\* reachable state of any interleaving of add, set and remove requests.
C2_OneLinePerUserProduct ==
    \A r1, r2 \in cart_items : SameLine(r1, r2) => r1 = r2

\* C2 witness: two inserts for the same pair raced and the second was refused
C2_Witness ==
    /\ AddCommitted(prev) /\ AddCommitted(last)
    /\ SameLine(prev.req, last.req)
    /\ prev.req.saw = {} /\ last.req.saw = {}
    /\ last.resp.status = 500
    /\ Cardinality(LinesOf(last.req)) = 1

\* C3: add_item(u, p, q1) on no line followed by add_item(u, p, q2), with
\* nothing else on that line in between, leaves exactly one line for (u, p),
\* of quantity q1 + q2: the second call increments, without overwrite or clamp.
C3_AddThenAddIsAdditive ==
    ( /\ prev.req.op = "add_item" /\ prev.resp.status = 200
      /\ last.req.op = "add_item" /\ last.resp.status = 200
      /\ SameLine(prev.req, last.req)
      /\ prev.req.saw = {}
      /\ last.req.saw # {} )
    => /\ Cardinality(LinesOf(last.req)) = 1
       /\ \A l \in LinesOf(last.req) :
            l.quantity = prev.req.quantity + last.req.quantity

\* C3 witness: 999 added to a fresh line of 999, above the bound of one call
C3_Witness ==
    /\ prev.req.op = "add_item" /\ prev.resp.status = 200 /\ prev.req.saw = {}
    /\ last.req.op = "add_item" /\ last.resp.status = 200 /\ last.req.saw # {}
    /\ SameLine(prev.req, last.req)
    /\ prev.req.quantity = 999 /\ last.req.quantity = 999
    /\ \E l \in LinesOf(last.req) : l.quantity = 1998

-----------------------------------------------------------------------------
\* Rows of every user other than user_id
RowsOfOthers(rows, user_id) == {r \in rows : r.user_id # user_id}

\* C4: a cart operation performed with one user's identity, successful or
\* failing, leaves the cart lines of every other user and their quantities
\* unchanged, and get_cart lists only lines the caller owns.
C4_CartIsolation ==
    [][ /\ \A op \in CartOps :
             Answers(op) =>
               RowsOfOthers(cart_items', last'.req.user_id)
                 = RowsOfOthers(cart_items, last'.req.user_id)
        /\ \A w \in Workers :
             (pc'[w] # pc[w] /\ (req[w].op \in CartOps \/ req'[w].op \in CartOps)) =>
               LET user_id == IF pc[w] = "idle" THEN req'[w].user_id ELSE req[w].user_id
               IN  RowsOfOthers(cart_items', user_id) = RowsOfOthers(cart_items, user_id)
        /\ Answers("get_cart") =>
             \A i \in last'.resp.items :
               \E r \in cart_items : r.id = i.row /\ r.user_id = last'.req.user_id
      ]_vars

\* C4 witness: a user has added to their own cart while another user has lines
C4_Witness ==
    /\ Done("add_item")
    /\ last.resp.status = 200
    /\ RowsOfOthers(cart_items, last.req.user_id) # {}

\* C5 (as claimed): the quantity of every stored cart line is in 1..999.
C5_QuantityInRange ==
    \A r \in cart_items : r.quantity >= 1 /\ r.quantity <= 999

\* C5 (amended): the quantity of every stored cart line is a positive
\* integer; a single request carries at most 999, but repeated add_item calls
\* may raise a line above 999.
C5_QuantityPositive ==
    \A r \in cart_items : r.quantity \in Nat /\ r.quantity >= 1

\* C5 witness: a line above 999
C5_Witness ==
    /\ Done("add_item")
    /\ last.resp.status = 200
    /\ \E r \in LinesOf(last.req) : r.quantity > 999

-----------------------------------------------------------------------------
\* Exact sum, in cents, of price times quantity over a set of cart rows
RECURSIVE ExactTotal(_, _)
ExactTotal(rows, catalog) ==
    IF rows = {} THEN 0
    ELSE LET r == CHOOSE x \in rows : TRUE
         IN  catalog[r.product_id].price * r.quantity
               + ExactTotal(rows \ {r}, catalog)

\* C6: get_cart returns one entry per cart line of the user whose product
\* exists, each with line_total = unit price times quantity at the prices
\* current at the read, and a total equal to the sum of the line totals.
C6_CartSummaryTotals ==
    [][ (Answers("get_cart") /\ ByUser(last'.req)) =>
          LET mine == {r \in cart_items : /\ r.user_id = last'.req.user_id
                                          /\ r.product_id \in DOMAIN products}
              items == last'.resp.items
          IN  /\ last'.resp.status = 200
              /\ Cardinality(items) = Cardinality(mine)
              /\ \A r \in mine :
                   \E i \in items :
                     /\ i.product_id = r.product_id
                     /\ i.quantity = r.quantity
                     /\ i.price = products[r.product_id].price
                     /\ i.line_total = products[r.product_id].price * r.quantity
              /\ last'.resp.total = ExactTotal(mine, products)
      ]_vars

\* C6 witness: a cart read after a price change, with a line of more than one unit
C6_Witness ==
    /\ Done("get_cart")
    /\ \E i \in last.resp.items :
         /\ i.quantity > 1
         /\ i.price # (IF i.product_id = 1 THEN 249 ELSE 139)
         /\ i.price = products[i.product_id].price

-----------------------------------------------------------------------------
ItemNotInCart == HTTPException(404, "Item not found in cart")

\* C7: remove_item on an existing line deletes exactly that line, every
\* other line keeps its quantity and the cart read that follows does not list
\* the product (the removal leaves the user no line for it, and get_cart
\* lists a product only if the user has a line for it); remove_item without
\* a line fails with 404 "Item not found in cart" and leaves every cart line
\* unchanged.
C7_RemoveItem ==
    [][ /\ \A w \in Workers :
             Commits(w, "remove_commit") =>
               \A line \in req[w].saw :
                 line \in cart_items =>
                   /\ cart_items' = cart_items \ {line}
                   /\ \A x \in cart_items' : ~SameLine(x, req[w])
                   /\ last'.resp.status = 200
                   /\ \A i \in last'.resp.items : i.product_id # req[w].product_id
        /\ \A w \in Workers :
             (/\ Receives(w, "remove_item")
              /\ ByUser(IF pc'[w] = "idle" THEN last'.req ELSE req'[w])
              /\ LinesOf(IF pc'[w] = "idle" THEN last'.req ELSE req'[w]) = {})
               => /\ pc'[w] = "idle"
                  /\ last'.resp = ItemNotInCart
                  /\ cart_items' = cart_items
        /\ Answers("get_cart") =>
             \A i \in last'.resp.items :
               \E x \in cart_items :
                 x.user_id = last'.req.user_id /\ x.product_id = i.product_id
      ]_vars

\* C7 witness: a line was removed and the user's other line is still listed
C7_Witness ==
    /\ Done("remove_item")
    /\ last.resp.status = 200
    /\ last.resp.items # {}
    /\ LinesOf(last.req) = {}

-----------------------------------------------------------------------------
ProductUnavailable == HTTPException(400, "Product '<name>' is currently not available")

ProductNotFound == HTTPException(404, "Product not found")

\* C8 (as claimed): add_item for a product that is not available fails with
\* ProductUnavailable whatever quantity is submitted, add_item for a product
\* id that does not exist fails with ProductNotFound, and neither creates or
\* changes a cart line.
C8_UnavailableAnyQuantity ==
    [][ (Answers("add_item") /\ ByUser(last'.req)) =>
          LET pid == last'.req.product_id
              q == last'.req.quantity
          IN  /\ (pid \in DOMAIN products /\ ~products[pid].is_available)
                 => last'.resp = ProductUnavailable /\ cart_items' = cart_items
              /\ (pid \notin DOMAIN products /\ q >= 1 /\ q <= 999)
                 => last'.resp = ProductNotFound /\ cart_items' = cart_items
      ]_vars

\* C8 (amended): for every quantity in 1..999, add_item for a product that
\* is not available fails with ProductUnavailable and add_item for a product
\* id that does not exist fails with ProductNotFound; a quantity outside
\* 1..999 is refused by the validation of the request before the product is
\* looked at.  In each of these cases no cart line is created or changed.
C8_UnavailableValidQuantity ==
    [][ \A w \in Workers :
          (Receives(w, "add_item") /\ ByUser(IF pc'[w] = "idle" THEN last'.req ELSE req'[w])) =>
            LET r == IF pc'[w] = "idle" THEN last'.req ELSE req'[w]
                pid == r.product_id
                q == r.quantity
                refused == \/ q < 1 \/ q > 999
                           \/ pid \notin DOMAIN products
                           \/ ~products[pid].is_available
            IN  /\ refused => pc'[w] = "idle" /\ cart_items' = cart_items
                /\ (q < 1 \/ q > 999) => last'.resp = ValidationError
                /\ (q >= 1 /\ q <= 999 /\ pid \notin DOMAIN products)
                   => last'.resp = ProductNotFound
                /\ (q >= 1 /\ q <= 999 /\ pid \in DOMAIN products
                      /\ ~products[pid].is_available)
                   => last'.resp = ProductUnavailable
      ]_vars

\* C8 witness: add_item refused for a product that is no longer available
\* and of which the user already has a line
C8_Witness ==
    /\ Done("add_item")
    /\ last.resp = ProductUnavailable
    /\ LinesOf(last.req) # {}

-----------------------------------------------------------------------------
\* C9 (as claimed): no two stored users have usernames that are equal when
\* compared ignoring case, also when the existence check and the insert of
\* concurrent register calls interleave.
C9_UsernamesUniqueIgnoringCase ==
    \A u1, u2 \in users :
        SameIgnoringCase(u1.username, u2.username) => u1 = u2

-----------------------------------------------------------------------------
InvalidCredentials == HTTPException(401, "Invalid username or password")

\* C10: login with a wrong password for an existing username and login for a
\* username that does not exist give the identical response (401, the same
\* message), and neither changes any stored state.
C10_LoginFailuresIndistinguishable ==
    [][ Answers("login") =>
          LET username == Strip(last'.req.username)
              known == \E u \in users : u.username = username
              right == \E u \in users :
                         /\ u.username = username
                         /\ verify_password(last'.req.password, u.password_hash)
          IN  /\ UNCHANGED <<users, products, cart_items, next_user_id, next_cart_id>>
              /\ ~known => last'.resp = InvalidCredentials
              /\ (known /\ ~right) => last'.resp = InvalidCredentials
              /\ right => last'.resp.status = 200
      ]_vars

\* C10 witness: a login refused for a wrong password after a login refused
\* for an unknown username, with the same response
C10_Witness ==
    /\ Done("login") /\ prev.req.op = "login"
    /\ last.resp = InvalidCredentials /\ prev.resp = last.resp
    /\ \E u \in users : u.username = Strip(last.req.username)
    /\ ~\E u \in users : u.username = Strip(prev.req.username)

-----------------------------------------------------------------------------
\* What makes a header unfit to authenticate a request at time at: no header,
\* a header that is not "Bearer <token>", a token that the server did not
\* sign, a token past its expiry, a subject that is not a registered user
NoUserFor(authorization, rows, at) ==
    \/ authorization = NoHeader
    \/ Len(authorization) # 2
    \/ authorization[1] # "Bearer"
    \/ authorization[2].signature # "server"
    \/ authorization[2].exp < at
    \/ ~\E u \in rows : u.username = authorization[2].sub

\* C11: a cart operation (get_cart, add_item, set_item_quantity, remove_item)
\* called without an Authorization header, with a header that is not
\* "Bearer <token>", with a token of invalid signature, with an expired token
\* or with a token whose subject is not a registered user is answered 401 at
\* once and no cart line of any user is created, changed or deleted.
C11_UnauthenticatedCartUntouched ==
    [][ \A op \in CartOps :
          (Receives(FirstWorker, op) /\ pc'[FirstWorker] = "idle"
             /\ NoUserFor(last'.req.authorization, users, now))
          \/ (Receives(FirstWorker, op) /\ pc'[FirstWorker] # "idle"
             /\ NoUserFor(req'[FirstWorker].authorization, users, now))
          => /\ pc'[FirstWorker] = "idle"
             /\ last'.resp.status = 401
             /\ last'.resp.items = {}
             /\ UNCHANGED <<users, products, cart_items, next_user_id, next_cart_id, tokens>>
      ]_vars

\* C11 witness: a user with a line in the cart sends a cart request with
\* a token that has expired, and is answered 401
C11_Witness ==
    /\ last.req.op \in CartOps
    /\ last.resp = Unauthenticated("Invalid or expired token")
    /\ last.req.authorization # NoHeader
    /\ last.req.authorization[2] \in tokens
    /\ last.req.authorization[2].exp < now
    /\ \E u \in users, x \in cart_items :
         u.username = last.req.authorization[2].sub /\ x.user_id = u.id

-----------------------------------------------------------------------------
\* The routes behind get_current_user
ProtectedOps == CartOps \cup {"logout"}

\* The request that worker w received in this step
Received(w) == IF pc'[w] = "idle" THEN last'.req ELSE req'[w]

\* The header is "Bearer <token>" with a token that a login handed out
HeldToken(authorization) ==
    /\ authorization # NoHeader
    /\ Len(authorization) = 2
    /\ authorization[1] = "Bearer"
    /\ authorization[2] \in tokens

\* C12: a token handed out by a successful login resolves to the user who
\* logged in for as long as it has not expired, whatever logins and logouts
\* came after it (no step takes a token back, logout changes nothing), and
\* once it has expired every protected route answers it with 401.
C12_TokenValidUntilExpiry ==
    [][ /\ \A op \in ProtectedOps :
             (Receives(FirstWorker, op) /\ HeldToken(Received(FirstWorker).authorization)) =>
               LET r == Received(FirstWorker)
                   token == r.authorization[2]
               IN  IF token.exp < now
                   THEN /\ pc'[FirstWorker] = "idle"
                        /\ last'.resp.status = 401
                        /\ UNCHANGED <<users, cart_items>>
                   ELSE /\ \E u \in users : u.username = token.sub /\ r.user_id = u.id
                        /\ pc'[FirstWorker] = "idle" => last'.resp.status # 401
        /\ (Answers("login") /\ last'.resp.status = 200) =>
             /\ last'.resp.access_token
                  = Token(Strip(last'.req.username), now + ACCESS_TOKEN_EXPIRE_DAYS)
             /\ last'.resp.access_token \in tokens'
             /\ \E u \in users : u.username = last'.resp.access_token.sub
        /\ Answers("logout") => UNCHANGED <<users, cart_items, tokens>>
        /\ tokens \subseteq tokens'
      ]_vars

\* C12 witness: a protected route accepts a token right after a login of the
\* same user that returned a different, later token
C12_Witness ==
    /\ last.req.op \in ProtectedOps
    /\ last.resp.status = 200
    /\ HeldToken(last.req.authorization)
    /\ prev.req.op = "login"
    /\ prev.resp.status = 200
    /\ prev.resp.access_token.sub = last.req.authorization[2].sub
    /\ prev.resp.access_token.exp > last.req.authorization[2].exp

-----------------------------------------------------------------------------
\* C13: set_item_quantity(u, p, q) changes the cart only when u has a line
\* for p: for q in 1..999 the quantity of that line becomes exactly q and no
\* other line changes; for q = 0 the line is deleted, which is the cart that
\* remove_item(u, p) leaves; when u has no line for p it is answered 404
\* "Item not found in cart" for every q in 0..999 and no cart line changes.
C13_SetItemQuantity ==
    [][ /\ \A w \in Workers :
             Commits(w, "update_commit") =>
               LET r == req[w]
                   stored == {x \in cart_items : \E line \in r.saw : x.id = line.id}
               IN  /\ stored = {} => cart_items' = cart_items
                   /\ \A x \in stored :
                        /\ x.user_id = r.user_id /\ x.product_id = r.product_id
                        /\ last'.resp.status = 200
                        /\ r.quantity >= 1 =>
                             /\ cart_items' = (cart_items \ {x})
                                                \cup {[x EXCEPT !.quantity = r.quantity]}
                             /\ \E i \in last'.resp.items :
                                  i.product_id = r.product_id /\ i.quantity = r.quantity
                        /\ r.quantity = 0 =>
                             /\ cart_items' = cart_items \ {x}
                             /\ cart_items' = RemoveLine(cart_items, x)
                             /\ \A i \in last'.resp.items : i.product_id # r.product_id
        /\ \A w \in Workers :
             (Receives(w, "set_item_quantity") /\ ByUser(Received(w))) =>
               /\ cart_items' = cart_items
               /\ Received(w).quantity \in 0..999
               /\ LinesOf(Received(w)) = {} =>
                    pc'[w] = "idle" /\ last'.resp = ItemNotInCart
               /\ LinesOf(Received(w)) # {} =>
                    pc'[w] = "update_commit" /\ req'[w].saw = LinesOf(Received(w))
      ]_vars

\* C13 witness: a line of quantity 999 was set to 1 and holds 1, next to
\* another line of the user
C13_Witness ==
    /\ Done("set_item_quantity")
    /\ last.resp.status = 200
    /\ last.req.quantity = 1
    /\ SawQuantity(last.req.saw) = 999
    /\ \E x \in LinesOf(last.req) : x.quantity = 1
    /\ \E y \in cart_items : y.user_id = last.req.user_id /\ y.product_id # last.req.product_id

-----------------------------------------------------------------------------
\* C14 (as claimed): register with an admissible username and password
\* succeeds whenever no stored username equals the submitted one (trimmed)
\* ignoring case, also for usernames that contain % or _ : it adds exactly
\* one user, who has no cart line, and changes no other user and no cart line.
C14_RegisterSucceedsUnlessTaken ==
    [][ /\ Receives(FirstWorker, "register") =>
             LET r == Received(FirstWorker)
                 username == Strip(r.username)
                 admissible == /\ Len(r.username) >= UsernameMinLen
                               /\ Len(r.username) <= UsernameMaxLen
                               /\ Len(r.password) >= PasswordMinLen
                 taken == \E u \in users : SameIgnoringCase(u.username, username)
             IN  /\ UNCHANGED <<users, cart_items>>
                 /\ (admissible /\ ~taken) => pc'[FirstWorker] = "register_commit"
        /\ Commits(FirstWorker, "register_commit") =>
             /\ last'.resp.status = 200
             /\ \E u \in users' :
                  /\ u \notin users
                  /\ users' = users \cup {u}
                  /\ u.username = Strip(req[FirstWorker].username)
                  /\ CartRowsOf(cart_items', u.id) = {}
             /\ cart_items' = cart_items
      ]_vars

-----------------------------------------------------------------------------
\* The same request issued again: same route, header, body and parameters
SameRequest(r1, r2) ==
    /\ r1.op = r2.op
    /\ r1.authorization = r2.authorization
    /\ r1.username = r2.username
    /\ r1.password = r2.password
    /\ r1.product_id = r2.product_id
    /\ r1.quantity = r2.quantity

RetrySafeOps == {"register", "login", "logout", "get_cart", "set_item_quantity", "remove_item"}

\* C15: register, login, logout, get_cart, set_item_quantity and remove_item
\* are safe to retry: the same request issued a second time right after the
\* first leaves the users and the cart lines as the first left them; an
\* add_item that succeeded and is issued again adds its quantity once more.
C15_RetrySafeExceptAdd ==
    [][ /\ \A op \in RetrySafeOps :
             (Receives(FirstWorker, op) /\ SameRequest(last.req, Received(FirstWorker)))
               => UNCHANGED <<users, cart_items>>
        /\ \A at \in {"register_commit", "update_commit", "remove_commit"} :
             (Commits(FirstWorker, at) /\ SameRequest(last.req, req[FirstWorker]))
               => UNCHANGED <<users, cart_items>>
        /\ (/\ Commits(FirstWorker, "add_commit")
            /\ SameRequest(last.req, req[FirstWorker])
            /\ last.resp.status = 200)
             => /\ cart_items' # cart_items
                /\ \E x \in cart_items, y \in cart_items' :
                     /\ SameLine(x, req[FirstWorker]) /\ y.id = x.id
                     /\ y.quantity = x.quantity + req[FirstWorker].quantity
      ]_vars

\* C15 witness: a line of quantity 999 was set to 1 twice in a row and holds 1
C15_Witness ==
    /\ Done("set_item_quantity")
    /\ SameRequest(prev.req, last.req)
    /\ prev.resp.status = 200 /\ last.resp.status = 200
    /\ last.req.quantity = 1
    /\ SawQuantity(prev.req.saw) = 999
    /\ SawQuantity(last.req.saw) = 1
    /\ \A x \in LinesOf(last.req) : x.quantity = 1

=============================================================================
